---- MODULE Spec2Model ----
(***************************************************************************)
(* Model of the IMDB title-initial analyses (src/imdb).                    *)
(*                                                                         *)
(*   analysis_utils.py            extract_first_letter, load_indian_titles,*)
(*                                load_movie_basics, load_ratings          *)
(*   letter_rating_analysis.py    analyze, format_table, main              *)
(*   director_letter_preference.py analyze_preferences, main               *)
(*                                                                         *)
(* Strings are sequences of one-character strings.  A missing value (the   *)
(* \N sentinel of the TSV files, pandas NA, Python None) is NA, or NAText  *)
(* where a text is expected.  Floating-point values are exact rationals    *)
(* [num, den] with den > 0; 0/0 is NaN and x/0 is Inf, as in IEEE 754.     *)
(* AnovaSpec alone computes in rounded binary floats (m * 2^e), on ratings  *)
(* of one decimal, where rounding decides the sign of a sum of squares.    *)
(***************************************************************************)
EXTENDS Integers, Sequences, FiniteSets, TLC

VARIABLES
    cl_title, cl_key, cl_pc,            \* extract_first_letter: argument, result
    lt_akas, lt_chunks, lt_preferred, lt_pc,
                                        \* load_indian_titles: file rows, the
                                        \* chunks kept by the loop, result
    d_in, d_results, d_out, d_pc,       \* director_letter_preference.main: the
                                        \* files and options, the analysis
                                        \* result, the lines printed
    l_in, l_results, l_out, l_pc,       \* letter_rating_analysis.main: the same
    a_ratings, a_stats, a_pc,           \* the ANOVA of analyze: the ratings of
                                        \* each letter, the statistics
    cr_crew, cr_pairs, cr_pc,           \* load_director_assignments: file rows,
                                        \* result
    nm_names, nm_ids, nm_subset, nm_pc  \* load_names_subset: file rows, the
                                        \* ids asked for, result

vars == <<cl_title, cl_key, cl_pc, lt_akas, lt_chunks, lt_preferred, lt_pc,
          d_in, d_results, d_out, d_pc, l_in, l_results, l_out, l_pc,
          a_ratings, a_stats, a_pc, cr_crew, cr_pairs, cr_pc,
          nm_names, nm_ids, nm_subset, nm_pc>>

clVars == <<cl_title, cl_key, cl_pc>>
ltVars == <<lt_akas, lt_chunks, lt_preferred, lt_pc>>
dVars == <<d_in, d_results, d_out, d_pc>>
lVars == <<l_in, l_results, l_out, l_pc>>
aVars == <<a_ratings, a_stats, a_pc>>
crVars == <<cr_crew, cr_pairs, cr_pc>>
nmVars == <<nm_names, nm_ids, nm_subset, nm_pc>>

----------------------------------------------------------------------------
(* Bounds *)

MaxLen == 3          \* longest title handed to the classifier
MaxRows == 3         \* longest title.akas file
ChunkSize == 2       \* rows per read_csv chunk (250_000 in the program)
MaxVotes == 3        \* numVotes of a title is 0 or MaxVotes
MaxMinMovies == 3    \* largest --min-movies
MaxTopN == 2         \* largest --top-n

----------------------------------------------------------------------------
(* Values *)

NA == "NA"
NAText == <<NA>>

Range(s) == {s[i] : i \in 1..Len(s)}

RECURSIVE SeqsUpTo(_, _)
SeqsUpTo(S, n) ==
    IF n = 0 THEN {<<>>}
    ELSE LET shorter == SeqsUpTo(S, n - 1)
         IN  shorter \cup {Append(s, x) : s \in {t \in shorter : Len(t) = n - 1}, x \in S}

----------------------------------------------------------------------------
(* Characters: str.isalpha, str.isdigit, str.isspace, str.upper *)

LowerChars == {"a", "b"}
UpperChars == {"A", "B"}
DigitChars == {"7"}
SpaceChars == {" "}
OtherChars == {"-"}
Chars == LowerChars \cup UpperChars \cup DigitChars \cup SpaceChars \cup OtherChars

isalpha(c) == c \in LowerChars \cup UpperChars
isdigit(c) == c \in DigitChars
isspace(c) == c \in SpaceChars

UpperNone(c) == c

upper(c) ==
    CASE c = "a" -> "A"
      [] c = "b" -> "B"
      [] OTHER -> c

isstr(x) == x # NAText

RECURSIVE lstrip(_)
lstrip(s) ==
    IF s # <<>> /\ isspace(Head(s)) THEN lstrip(Tail(s)) ELSE s

RECURSIVE rstrip(_)
rstrip(s) ==
    IF s # <<>> /\ isspace(s[Len(s)]) THEN rstrip(SubSeq(s, 1, Len(s) - 1)) ELSE s

strip(s) == rstrip(lstrip(s))

\* the for loop of extract_first_letter over the remaining characters
RECURSIVE ScanChars(_)
ScanChars(s) ==
    IF s = <<>> THEN NA
    ELSE IF isalpha(Head(s)) THEN upper(Head(s))
    ELSE IF isdigit(Head(s)) THEN "#"
    ELSE ScanChars(Tail(s))

extract_first_letter(title) ==
    IF ~isstr(title) THEN NA ELSE ScanChars(strip(title))

----------------------------------------------------------------------------
(* load_indian_titles *)

AkasTitleIds == {"t1", "t2"}
Regions == {"IN", "US"}
Orderings == {1, 2}
OriginalFlags == {"0", "1", NA}

\* the columns of a title.akas row other than its text
AkasKeys == [titleId : AkasTitleIds, ordering : Orderings,
             region : Regions, isOriginalTitle : OriginalFlags]

\* the text of the i-th row of the file: every row has a text of its own, so
\* that a kept text names the row it was taken from
RowText(i) == [j \in 1..i |-> "a"]

AkasFile(keys) ==
    [i \in 1..Len(keys) |->
        [titleId |-> keys[i].titleId, ordering |-> keys[i].ordering, title |-> RowText(i),
         region |-> keys[i].region, isOriginalTitle |-> keys[i].isOriginalTitle]]

\* fillna("0").astype(int)
FlagToInt(f) == IF f = NA \/ f = "0" THEN 0 ELSE 1

\* rows[from..], one chunk of at most ChunkSize rows at a time: the filtered
\* chunk, skipped when empty, otherwise appended to the list of chunks
RECURSIVE ReadChunks(_, _)
ReadChunks(rows, target) ==
    IF rows = <<>> THEN <<>>
    ELSE LET n == IF Len(rows) < ChunkSize THEN Len(rows) ELSE ChunkSize
             chunk == SubSeq(rows, 1, n)
             filtered == SelectSeq(chunk, LAMBDA r : r.region = target)
             converted == [i \in 1..Len(filtered) |->
                              [filtered[i] EXCEPT !.isOriginalTitle = FlagToInt(@)]]
             rest == ReadChunks(SubSeq(rows, n + 1, Len(rows)), target)
         IN  IF filtered = <<>> THEN rest ELSE <<converted>> \o rest

RECURSIVE Concat(_)
Concat(chunks) ==
    IF chunks = <<>> THEN <<>> ELSE Head(chunks) \o Concat(Tail(chunks))

\* lexicographic order on tuples of integers of equal length
RECURSIVE LexLess(_, _)
LexLess(a, b) ==
    /\ a # <<>>
    /\ \/ Head(a) < Head(b)
       \/ Head(a) = Head(b) /\ LexLess(Tail(a), Tail(b))

\* stable sort (sort_values on several columns is a stable lexsort): the
\* permutation of 1..Len(keys) that orders the key tuples ascending and keeps
\* rows with equal keys in their original order
RECURSIVE InsertStable(_, _, _)
InsertStable(i, perm, keys) ==
    IF perm = <<>> THEN <<i>>
    ELSE IF LexLess(keys[i], keys[Head(perm)]) THEN <<i>> \o perm
    ELSE <<Head(perm)>> \o InsertStable(i, Tail(perm), keys)

RECURSIVE SortPerm(_, _)
SortPerm(n, keys) ==
    IF n = 0 THEN <<>> ELSE InsertStable(n, SortPerm(n - 1, keys), keys)

SortValues(s, keys) ==
    LET perm == SortPerm(Len(s), keys) IN [i \in 1..Len(s) |-> s[perm[i]]]

\* drop_duplicates(subset, keep="first"); keys[i] is the subset value of s[i]
DropDuplicates(s, keys) ==
    LET firsts == {i \in 1..Len(s) : \A j \in 1..(i - 1) : keys[j] # keys[i]}
        RECURSIVE Pick(_)
        Pick(i) == IF i > Len(s) THEN <<>>
                   ELSE IF i \in firsts THEN <<s[i]>> \o Pick(i + 1)
                   ELSE Pick(i + 1)
    IN  Pick(1)

\* string order of the identifiers that occur ("t1" < "t2" < ...)
IdOrder(t) == CHOOSE n \in 1..4 : t = <<"t1", "t2", "t3", "t4">>[n]

\* sort keys of line 91: titleId ascending, isOriginalTitle descending,
\* ordering ascending
AkasSortKeyAscFlag(r) == <<IdOrder(r.titleId), r.isOriginalTitle, r.ordering>>

AkasSortKey(r) == <<IdOrder(r.titleId), 0 - r.isOriginalTitle, r.ordering>>

load_indian_titles(rows) ==
    LET chunks == ReadChunks(rows, "IN")
    IN  IF chunks = <<>> THEN <<>>
        ELSE LET concat == Concat(chunks)
                 akas_in == SortValues(concat, [i \in 1..Len(concat) |-> AkasSortKey(concat[i])])
                 kept == DropDuplicates(akas_in, [i \in 1..Len(akas_in) |-> akas_in[i].titleId])
             IN  [i \in 1..Len(kept) |->
                     [tconst |-> kept[i].titleId, regionalTitle |-> kept[i].title]]

----------------------------------------------------------------------------
(* Floating-point columns *)

Rat(n, d) == [num |-> n, den |-> d]
NaN == Rat(0, 0)

\* x / y for an integer or float x and an integer y: 0/0 is NaN
Div(x, y) == IF y = 0 THEN (IF x = 0 THEN NaN ELSE Rat(1, 0)) ELSE Rat(x, y)

isnan(r) == r.num = 0 /\ r.den = 0
notna(r) == ~isnan(r)

RatLess(a, b) == a.num * b.den < b.num * a.den
RatEq(a, b) == isnan(a) = isnan(b) /\ a.num * b.den = b.num * a.den

RECURSIVE GCD(_, _)
GCD(a, b) == IF b = 0 THEN a ELSE GCD(b, a % b)

Abs(n) == IF n < 0 THEN 0 - n ELSE n

\* the same value in lowest terms, the denominator positive
Norm(n, d) ==
    LET g == GCD(Abs(n), Abs(d))
        s == IF d < 0 THEN 0 - 1 ELSE 1
    IN  IF d = 0 THEN Rat(IF n = 0 THEN 0 ELSE 1, 0) ELSE Rat(s * (n \div g), s * (d \div g))

\* arithmetic on floats; NaN is contagious
RatAdd(a, b) == IF isnan(a) \/ isnan(b) THEN NaN ELSE Norm(a.num * b.den + b.num * a.den, a.den * b.den)
RatSub(a, b) == IF isnan(a) \/ isnan(b) THEN NaN ELSE Norm(a.num * b.den - b.num * a.den, a.den * b.den)
RatMul(a, b) == IF isnan(a) \/ isnan(b) THEN NaN ELSE Norm(a.num * b.num, a.den * b.den)
RatDiv(a, b) == IF isnan(a) \/ isnan(b) THEN NaN ELSE Norm(a.num * b.den, a.den * b.num)

RECURSIVE RatSum(_)
RatSum(s) == IF s = <<>> THEN Rat(0, 1) ELSE RatAdd(Head(s), RatSum(Tail(s)))

RECURSIVE Pow10(_)
Pow10(n) == IF n = 0 THEN 1 ELSE 10 * Pow10(n - 1)

\* format(x, ".<digits>f") of a non-negative float: <<"nan">>, or the integer
\* part and the rounded fraction digits (ties to even)
Fmt(x, digits) ==
    IF isnan(x) THEN <<"nan">>
    ELSE IF x.den = 0 THEN <<"inf">>
    ELSE LET scaled == x.num * Pow10(digits)
             q == scaled \div x.den
             r == scaled % x.den
             n == IF 2 * r > x.den \/ (2 * r = x.den /\ q % 2 = 1) THEN q + 1 ELSE q
         IN  <<n \div Pow10(digits), n % Pow10(digits)>>

\* the codes a sort gives to the values of a float column: equal values get
\* equal codes, smaller values smaller codes
RankCodes(vals) ==
    [i \in DOMAIN vals |-> Cardinality({j \in DOMAIN vals : RatLess(vals[j], vals[i])})]

RECURSIVE SumOver(_, _)
SumOver(s, f) == IF s = <<>> THEN 0 ELSE s[1][f] + SumOver(Tail(s), f)

\* DataFrame.head(n): the first n rows, or all but the last -n when n < 0
head(s, n) ==
    LET k == IF n >= 0 THEN (IF n < Len(s) THEN n ELSE Len(s))
             ELSE (IF Len(s) + n > 0 THEN Len(s) + n ELSE 0)
    IN  SubSeq(s, 1, k)

----------------------------------------------------------------------------
(* Loaders shared by the two analyses *)

\* load_movie_basics: movies that are not adult titles
load_movie_basics(basics) ==
    LET kept == SelectSeq(basics, LAMBDA r : r.titleType = "movie" /\ r.isAdult # "1")
    IN  [i \in 1..Len(kept) |-> [tconst |-> kept[i].tconst, primaryTitle |-> kept[i].primaryTitle]]

\* load_ratings: rows with at least min_votes votes
load_ratings(ratings, min_votes) ==
    SelectSeq(ratings, LAMBDA r : r.numVotes >= min_votes)

\* DataFrame.merge(how="inner"): for every left row in order, one row per
\* matching right row in order; Combine(l, r) is the merged row
RECURSIVE FlatMap(_, _)
FlatMap(s, f) == IF s = <<>> THEN <<>> ELSE f[Head(s)] \o FlatMap(Tail(s), f)

MergeRatingsBasics(ratings, basics) ==
    LET match == [l \in Range(ratings) |->
                    LET rs == SelectSeq(basics, LAMBDA r : r.tconst = l.tconst)
                    IN  [i \in 1..Len(rs) |->
                            [tconst |-> l.tconst, averageRating |-> l.averageRating,
                             numVotes |-> l.numVotes, primaryTitle |-> rs[i].primaryTitle]]]
    IN  FlatMap(ratings, match)

----------------------------------------------------------------------------
(* director_letter_preference.py *)

Comma == ","

\* str.split(","): the pieces between the commas, empty pieces included
RECURSIVE SplitComma(_, _)
SplitComma(s, piece) ==
    IF s = <<>> THEN <<piece>>
    ELSE IF Head(s) = Comma THEN <<piece>> \o SplitComma(Tail(s), <<>>)
    ELSE SplitComma(Tail(s), Append(piece, Head(s)))

\* an identifier is one symbol of the list; the empty piece is the empty string
PieceId(piece) == IF piece = <<>> THEN "" ELSE piece[1]

\* load_director_assignments: one (tconst, nconst) row per piece of every
\* directors list that is present
load_director_assignments(crew) ==
    LET present == SelectSeq(crew, LAMBDA r : r.directors # NAText)
        exploded == [r \in Range(present) |->
                        LET pieces == SplitComma(r.directors, <<>>)
                        IN  [i \in 1..Len(pieces) |->
                                [tconst |-> r.tconst, nconst |-> PieceId(pieces[i])]]]
    IN  FlatMap(present, exploded)

\* load_names_subset: chunk by chunk, the rows whose nconst is a director id
RECURSIVE ReadNameChunks(_, _)
ReadNameChunks(rows, ids) ==
    IF rows = <<>> THEN <<>>
    ELSE LET n == IF Len(rows) < ChunkSize THEN Len(rows) ELSE ChunkSize
             subset == SelectSeq(SubSeq(rows, 1, n), LAMBDA r : r.nconst \in ids)
             rest == ReadNameChunks(SubSeq(rows, n + 1, Len(rows)), ids)
         IN  IF subset = <<>> THEN rest ELSE <<subset>> \o rest

\* chunks = [subset] in place of chunks.append(subset): the last chunk only
LoadNamesLastChunk(names, ids) ==
    LET chunks == ReadNameChunks(names, ids)
    IN  IF ids = {} \/ chunks = <<>> THEN <<>> ELSE chunks[Len(chunks)]

load_names_subset(names, ids) ==
    IF ids = {} THEN <<>> ELSE Concat(ReadNameChunks(names, ids))

\* lines 94-98: ratings x basics x crew (inner), then names (left)
MergeCrew(rb, crew) ==
    LET match == [l \in Range(rb) |->
                    LET rs == SelectSeq(crew, LAMBDA r : r.tconst = l.tconst)
                    IN  [i \in 1..Len(rs) |->
                            [tconst |-> l.tconst, averageRating |-> l.averageRating,
                             numVotes |-> l.numVotes, primaryTitle |-> l.primaryTitle,
                             nconst |-> rs[i].nconst]]]
    IN  FlatMap(rb, match)

MergeNames(rbc, names) ==
    LET match == [l \in Range(rbc) |->
                    LET rs == SelectSeq(names, LAMBDA r : r.nconst = l.nconst)
                        row(name) == [tconst |-> l.tconst, averageRating |-> l.averageRating,
                                      numVotes |-> l.numVotes, primaryTitle |-> l.primaryTitle,
                                      nconst |-> l.nconst, primaryName |-> name]
                    IN  IF rs = <<>> THEN <<row(NAText)>>
                        ELSE [i \in 1..Len(rs) |-> row(rs[i].primaryName)]]
    IN  FlatMap(rbc, match)

DirectorMerged(in) ==
    LET basics == load_movie_basics(in.basics)
        ratings == load_ratings(in.ratings, in.min_votes)
        crew == load_director_assignments(in.crew)
        director_ids == {crew[i].nconst : i \in 1..Len(crew)}
        names == load_names_subset(in.names, director_ids)
    IN  MergeNames(MergeCrew(MergeRatingsBasics(ratings, basics), crew), names)

\* merged[merged["firstLetter"].notna()]: drop the rows without a letter
DropUnclassified(lettered) == SelectSeq(lettered, LAMBDA r : r.firstLetter # NA)

\* lines 103-108: classify, drop the rows without a letter, weight, deduplicate
WithLetter(merged) ==
    LET lettered == [i \in 1..Len(merged) |->
                        [tconst |-> merged[i].tconst, nconst |-> merged[i].nconst,
                         averageRating |-> merged[i].averageRating,
                         numVotes |-> merged[i].numVotes,
                         primaryName |-> merged[i].primaryName,
                         firstLetter |-> extract_first_letter(merged[i].primaryTitle),
                         weightedRating |-> merged[i].averageRating * merged[i].numVotes]]
    IN  DropUnclassified(lettered)

DedupPairsNone(rows) == rows

DedupByDirector(rows) ==
    DropDuplicates(rows, [i \in 1..Len(rows) |-> rows[i].nconst])

\* line 108
DedupPairs(rows) ==
    DropDuplicates(rows, [i \in 1..Len(rows) |-> <<rows[i].nconst, rows[i].tconst>>])

\* groupby sorts its keys: identifiers and letters in string order
DirOrder(d) == CHOOSE n \in 0..2 : d = <<"", "d1", "d2">>[n + 1]
LetterOrder(c) == CHOOSE n \in 0..2 : c = <<"#", "A", "B">>[n + 1]

RECURSIVE SortedKeys(_, _)
SortedKeys(keys, order) ==
    IF keys = {} THEN <<>>
    ELSE LET k == CHOOSE x \in keys : \A y \in keys : ~LexLess(order[y], order[x])
         IN  <<k>> \o SortedKeys(keys \ {k}, order)

\* lines 116-119 and 128-131: weighted_rating / total_votes where the votes are
\* positive, missing where they are not
WeightedMean(weighted_rating, total_votes) ==
    IF total_votes > 0 THEN Rat(weighted_rating, total_votes) ELSE NaN

\* lines 110-119: one row per (nconst, firstLetter)
LetterStats(rows) ==
    LET keys == {<<rows[i].nconst, rows[i].firstLetter>> : i \in 1..Len(rows)}
        order == [k \in keys |-> <<DirOrder(k[1]), LetterOrder(k[2])>>]
        sorted == SortedKeys(keys, order)
    IN  [i \in 1..Len(sorted) |->
            LET g == SelectSeq(rows, LAMBDA r : <<r.nconst, r.firstLetter>> = sorted[i])
            IN  [nconst |-> sorted[i][1], firstLetter |-> sorted[i][2],
                 movie_count |-> Len(g),
                 mean_rating |-> Rat(SumOver(g, "averageRating"), Len(g)),
                 total_votes |-> SumOver(g, "numVotes"),
                 weighted_rating |-> SumOver(g, "weightedRating"),
                 weighted_mean |-> WeightedMean(SumOver(g, "weightedRating"),
                                                SumOver(g, "numVotes"))]]

\* GroupBy.first on a text column: the first value that is present
RECURSIVE FirstName(_)
FirstName(g) ==
    IF g = <<>> THEN NAText
    ELSE IF Head(g).primaryName # NAText THEN Head(g).primaryName
    ELSE FirstName(Tail(g))

\* lines 121-131: one row per nconst
DirectorTotals(rows) ==
    LET keys == {rows[i].nconst : i \in 1..Len(rows)}
        order == [k \in keys |-> <<DirOrder(k)>>]
        sorted == SortedKeys(keys, order)
    IN  [i \in 1..Len(sorted) |->
            LET g == SelectSeq(rows, LAMBDA r : r.nconst = sorted[i])
            IN  [nconst |-> sorted[i], name |-> FirstName(g),
                 movie_count |-> Len(g),
                 mean_rating |-> Rat(SumOver(g, "averageRating"), Len(g)),
                 total_votes |-> SumOver(g, "numVotes"),
                 weighted_rating |-> SumOver(g, "weightedRating"),
                 weighted_mean |-> WeightedMean(SumOver(g, "weightedRating"),
                                                SumOver(g, "numVotes"))]]

\* line 133
EligibleNone(director_totals, min_movies) == director_totals

EligibleDirectors(director_totals, min_movies) ==
    SelectSeq(director_totals, LAMBDA r : r.movie_count >= min_movies)

\* lines 137-138: the letter rows of the eligible directors, in the order of
\* letter_stats, with the director's total and the letter's share of it
EligibleLetters(letter_stats, eligible_directors) ==
    LET total == [d \in {eligible_directors[i].nconst : i \in 1..Len(eligible_directors)} |->
                     (CHOOSE r \in Range(eligible_directors) : r.nconst = d).movie_count]
        kept == SelectSeq(letter_stats, LAMBDA r : r.nconst \in DOMAIN total)
    IN  [i \in 1..Len(kept) |->
            [nconst |-> kept[i].nconst, firstLetter |-> kept[i].firstLetter,
             movie_count |-> kept[i].movie_count, mean_rating |-> kept[i].mean_rating,
             total_votes |-> kept[i].total_votes,
             weighted_rating |-> kept[i].weighted_rating,
             weighted_mean |-> kept[i].weighted_mean,
             movie_count_total |-> total[kept[i].nconst],
             share |-> Rat(kept[i].movie_count, total[kept[i].nconst])]]

\* GroupBy.first on a float column: the first value of the group that is not
\* missing, taken column by column
RECURSIVE FirstFloat(_, _)
FirstFloat(g, col) ==
    IF g = <<>> THEN NaN
    ELSE IF notna(Head(g)[col]) THEN Head(g)[col]
    ELSE FirstFloat(Tail(g), col)

TopLetterKeysAsc(rows) ==
    LET share == RankCodes([i \in 1..Len(rows) |-> rows[i].share])
    IN  [i \in 1..Len(rows) |-> <<share[i], 0 - rows[i].movie_count>>]

\* sort keys of line 142: share descending, movie_count descending
TopLetterKeys(rows) ==
    LET share == RankCodes([i \in 1..Len(rows) |-> rows[i].share])
    IN  [i \in 1..Len(rows) |-> <<0 - share[i], 0 - rows[i].movie_count>>]

\* lines 140-145: per director, the first row of the sorted letter rows
TopLetters(eligible_letters) ==
    LET sorted == SortValues(eligible_letters, TopLetterKeys(eligible_letters))
        keys == {sorted[i].nconst : i \in 1..Len(sorted)}
        dirs == SortedKeys(keys, [k \in keys |-> <<DirOrder(k)>>])
    IN  [i \in 1..Len(dirs) |->
            LET g == SelectSeq(sorted, LAMBDA r : r.nconst = dirs[i])
            IN  [nconst |-> dirs[i], firstLetter |-> g[1].firstLetter,
                 movie_count |-> g[1].movie_count,
                 mean_rating |-> FirstFloat(g, "mean_rating"),
                 total_votes |-> g[1].total_votes,
                 weighted_rating |-> g[1].weighted_rating,
                 weighted_mean |-> FirstFloat(g, "weighted_mean"),
                 movie_count_total |-> g[1].movie_count_total,
                 share |-> FirstFloat(g, "share")]]

Unknown == <<"(unknown)">>

\* fillna on a float column
fillna(x, other) == IF isnan(x) THEN other ELSE x

\* lines 147-158: one row per eligible director
Summary(top_letters, eligible_directors) ==
    LET match == [l \in Range(top_letters) |->
                    LET rs == SelectSeq(eligible_directors, LAMBDA r : r.nconst = l.nconst)
                    IN  [i \in 1..Len(rs) |->
                            [nconst |-> l.nconst, firstLetter |-> l.firstLetter,
                             share |-> l.share,
                             name |-> IF rs[i].name = NAText THEN Unknown ELSE rs[i].name,
                             movie_count_preferred |-> l.movie_count,
                             mean_rating_preferred |-> l.mean_rating,
                             weighted_mean_preferred |-> fillna(l.weighted_mean, l.mean_rating),
                             movie_count_overall |-> rs[i].movie_count,
                             mean_rating_overall |-> rs[i].mean_rating,
                             weighted_mean_overall |->
                                 fillna(rs[i].weighted_mean, rs[i].mean_rating)]]]
    IN  FlatMap(top_letters, match)

SummaryKeysNoCount(rows) ==
    LET share == RankCodes([i \in 1..Len(rows) |-> rows[i].share])
        mean == RankCodes([i \in 1..Len(rows) |-> rows[i].mean_rating_preferred])
    IN  [i \in 1..Len(rows) |-> <<0 - share[i], 0, 0 - mean[i]>>]

\* sort keys of lines 160-164: share, movie_count_overall and
\* mean_rating_preferred, all descending
SummaryKeys(rows) ==
    LET share == RankCodes([i \in 1..Len(rows) |-> rows[i].share])
        mean == RankCodes([i \in 1..Len(rows) |-> rows[i].mean_rating_preferred])
    IN  [i \in 1..Len(rows) |-> <<0 - share[i], 0 - rows[i].movie_count_overall, 0 - mean[i]>>]

\* lines 168-186
Preferences(selected) ==
    [i \in 1..Len(selected) |->
        [nconst |-> selected[i].nconst,
         name |-> selected[i].name,
         preferred_letter |-> selected[i].firstLetter,
         movie_count |-> selected[i].movie_count_overall,
         preferred_count |-> selected[i].movie_count_preferred,
         preferred_share |-> selected[i].share,
         preferred_mean |-> selected[i].mean_rating_preferred,
         preferred_weighted_mean |->
             IF notna(selected[i].weighted_mean_preferred)
             THEN selected[i].weighted_mean_preferred
             ELSE selected[i].mean_rating_preferred,
         overall_mean |-> selected[i].mean_rating_overall,
         overall_weighted_mean |->
             IF notna(selected[i].weighted_mean_overall)
             THEN selected[i].weighted_mean_overall
             ELSE selected[i].mean_rating_overall]]

Raised(message) == [status |-> "raised", error |-> message]

\* lines 103-108: the rows that are aggregated
AnalysisRows(in) == DedupPairs(WithLetter(DirectorMerged(in)))

\* analyze_preferences: the returned dictionary, or the error raised
analyze_preferences(in) ==
    LET merged == DirectorMerged(in)
        rows == AnalysisRows(in)
        letter_stats == LetterStats(rows)
        director_totals == DirectorTotals(rows)
        eligible_directors == EligibleDirectors(director_totals, in.min_movies)
        eligible_letters == EligibleLetters(letter_stats, eligible_directors)
        summary == Summary(TopLetters(eligible_letters), eligible_directors)
        sorted == SortValues(summary, SummaryKeys(summary))
        selected == head(sorted, in.top_n)
    IN  IF merged = <<>> THEN Raised("No movies with directors matched the filters")
        ELSE IF eligible_directors = <<>>
        THEN Raised("No directors met the minimum movie requirement")
        ELSE [status |-> "returned",
              preferences |-> Preferences(selected),
              global |-> [directors_considered |-> Len(eligible_directors),
                          movies_considered |-> SumOver(eligible_directors, "movie_count")]]

----------------------------------------------------------------------------
(* letter_rating_analysis.py *)

\* lines 40-43: ratings x basics x indian_titles (inner)
MergeTitles(rb, indian_titles) ==
    LET match == [l \in Range(rb) |->
                    LET rs == SelectSeq(indian_titles, LAMBDA r : r.tconst = l.tconst)
                    IN  [i \in 1..Len(rs) |->
                            [tconst |-> l.tconst, averageRating |-> l.averageRating,
                             numVotes |-> l.numVotes, primaryTitle |-> l.primaryTitle,
                             regionalTitle |-> rs[i].regionalTitle]]]
    IN  FlatMap(rb, match)

LetterMerged(in) ==
    MergeTitles(MergeRatingsBasics(load_ratings(in.ratings, in.min_votes),
                                   load_movie_basics(in.basics)),
                load_indian_titles(in.akas))

\* lines 47-52
LetterRows(merged) ==
    LET lettered ==
            [i \in 1..Len(merged) |->
                LET chosenTitle == IF merged[i].regionalTitle = NAText
                                   THEN merged[i].primaryTitle ELSE merged[i].regionalTitle
                IN  [tconst |-> merged[i].tconst,
                     averageRating |-> merged[i].averageRating,
                     numVotes |-> merged[i].numVotes,
                     firstLetter |-> extract_first_letter(chosenTitle),
                     ratingSq |-> merged[i].averageRating * merged[i].averageRating,
                     weightedRating |-> merged[i].averageRating * merged[i].numVotes]]
    IN  DropUnclassified(lettered)

\* Series.median of a group's ratings
Median(g) ==
    LET vals == [i \in 1..Len(g) |-> g[i].averageRating]
        sorted == SortValues(vals, [i \in 1..Len(vals) |-> <<vals[i]>>])
        n == Len(sorted)
    IN  IF n % 2 = 1 THEN Rat(sorted[(n + 1) \div 2], 1)
        ELSE Rat(sorted[n \div 2] + sorted[n \div 2 + 1], 2)

\* lines 54-64: one row per firstLetter, in letter order
LetterGroups(rows) ==
    LET keys == {rows[i].firstLetter : i \in 1..Len(rows)}
        sorted == SortedKeys(keys, [k \in keys |-> <<LetterOrder(k)>>])
    IN  [i \in 1..Len(sorted) |->
            LET g == SelectSeq(rows, LAMBDA r : r.firstLetter = sorted[i])
            IN  [firstLetter |-> sorted[i],
                 count |-> Len(g),
                 mean |-> Rat(SumOver(g, "averageRating"), Len(g)),
                 median |-> Median(g),
                 sum |-> SumOver(g, "averageRating"),
                 sum_sq |-> SumOver(g, "ratingSq"),
                 total_votes |-> SumOver(g, "numVotes"),
                 weighted_rating |-> SumOver(g, "weightedRating"),
                 weighted_mean |-> Div(SumOver(g, "weightedRating"), SumOver(g, "numVotes"))]]

compute_anova_components(group_stats) ==
    LET total_count == SumOver(group_stats, "count")
        overall_mean == Div(SumOver(group_stats, "sum"), total_count)
        ss_between ==
            RatSum([i \in 1..Len(group_stats) |->
                       LET dev == RatSub(group_stats[i].mean, overall_mean)
                       IN  RatMul(RatMul(dev, dev), Rat(group_stats[i].count, 1))])
        ss_within ==
            RatSum([i \in 1..Len(group_stats) |->
                       RatSub(Rat(group_stats[i].sum_sq, 1),
                              Rat(group_stats[i].sum * group_stats[i].sum, group_stats[i].count))])
    IN  [ss_between |-> ss_between, ss_within |-> ss_within,
         ss_total |-> RatAdd(ss_between, ss_within)]

\* lines 70-87
LetterStatsDict(rows, group) ==
    LET ss == compute_anova_components(group)
        k == Len(group)
        n == SumOver(group, "count")
        positive(x) == notna(x) /\ x.num > 0
    IN  [movie_count |-> n,
         letter_count |-> k,
         overall_mean |-> Div(SumOver(rows, "averageRating"), Len(rows)),
         overall_weighted_mean |-> Div(SumOver(rows, "weightedRating"), SumOver(rows, "numVotes")),
         ss_between |-> ss.ss_between,
         ss_within |-> ss.ss_within,
         ss_total |-> ss.ss_total,
         eta_squared |-> IF positive(ss.ss_total) THEN RatDiv(ss.ss_between, ss.ss_total) ELSE NaN,
         df_between |-> k - 1,
         df_within |-> n - k,
         f_statistic |->
             IF k - 1 > 0 /\ n - k > 0 /\ positive(ss.ss_within)
             THEN RatDiv(RatDiv(ss.ss_between, Rat(k - 1, 1)), RatDiv(ss.ss_within, Rat(n - k, 1)))
             ELSE NaN]

\* line 89: the orders sort_values("mean", ascending=False) may leave the groups
\* in; the default sort is not stable, so groups of equal mean come in any order
SortedByMean(group) ==
    {s \in [1..Len(group) -> Range(group)] :
        /\ \A i, j \in 1..Len(group) : i # j => s[i] # s[j]
        /\ \A i \in 1..(Len(group) - 1) : ~RatLess(s[i].mean, s[i + 1].mean)}

\* analyze: the returned dictionaries, or the error raised
analyze(in) ==
    LET indian_titles == load_indian_titles(in.akas)
        merged == LetterMerged(in)
        rows == LetterRows(merged)
        group == LetterGroups(rows)
    IN  IF indian_titles = <<>> THEN {Raised("No Indian titles found in akas dataset")}
        ELSE IF merged = <<>>
        THEN {Raised("No Indian movies matched the rating and basics filters")}
        ELSE {[status |-> "returned", group |-> g, stats |-> LetterStatsDict(rows, group)] :
                 g \in SortedByMean(group)}

\* format_table: the header, then one line per group
format_table(df) ==
    <<<<"Letter", "Titles", "Avg Rating", "Weighted Avg", "Median", "Total Votes">>>>
    \o [i \in 1..Len(df) |->
           [Letter |-> df[i].firstLetter,
            Titles |-> df[i].count,
            AvgRating |-> Fmt(df[i].mean, 2),
            WeightedAvg |-> Fmt(df[i].weighted_mean, 2),
            Median |-> Fmt(df[i].median, 2),
            TotalVotes |-> df[i].total_votes]]

----------------------------------------------------------------------------
(* Specification of the classifier *)

ClIdle == cl_title = NAText /\ cl_key = NA /\ cl_pc = "idle"
LtIdle == lt_akas = <<>> /\ lt_chunks = <<>> /\ lt_preferred = <<>> /\ lt_pc = "idle"
DIdle == d_in = <<>> /\ d_results = <<>> /\ d_out = <<>> /\ d_pc = "idle"
LIdle == l_in = <<>> /\ l_results = <<>> /\ l_out = <<>> /\ l_pc = "idle"
AIdle == a_ratings = <<>> /\ a_stats = <<>> /\ a_pc = "idle"
CrIdle == cr_crew = <<>> /\ cr_pairs = <<>> /\ cr_pc = "idle"
NmIdle == nm_names = <<>> /\ nm_ids = {} /\ nm_subset = <<>> /\ nm_pc = "idle"

ClInit ==
    /\ cl_title \in SeqsUpTo(Chars, MaxLen) \cup {NAText}
    /\ cl_key = NA
    /\ cl_pc = "call"

Classify ==
    /\ cl_pc = "call"
    /\ cl_key' = extract_first_letter(cl_title)
    /\ cl_pc' = "returned"
    /\ UNCHANGED <<cl_title, ltVars, dVars, lVars, aVars, crVars, nmVars>>

ClassifyInit == ClInit /\ LtIdle /\ DIdle /\ LIdle /\ AIdle /\ CrIdle /\ NmIdle

ClassifySpec == ClassifyInit /\ [][Classify]_vars

(* Specification of the title deduplicator *)

LtInit ==
    /\ lt_akas \in {AkasFile(keys) : keys \in SeqsUpTo(AkasKeys, MaxRows)}
    /\ lt_chunks = <<>>
    /\ lt_preferred = <<>>
    /\ lt_pc = "call"

LoadIndianTitles ==
    /\ lt_pc = "call"
    /\ lt_chunks' = ReadChunks(lt_akas, "IN")
    /\ lt_preferred' = load_indian_titles(lt_akas)
    /\ lt_pc' = "returned"
    /\ UNCHANGED <<lt_akas, clVars, dVars, lVars, aVars, crVars, nmVars>>

TitlesInit == LtInit /\ ClIdle /\ DIdle /\ LIdle /\ AIdle /\ CrIdle /\ NmIdle

TitlesSpec == TitlesInit /\ [][LoadIndianTitles]_vars

----------------------------------------------------------------------------
(* Specification of the director analysis *)

\* title.basics: one movie filed under A, two under B, one without a letter,
\* and a short film and an adult movie, which load_movie_basics leaves out
DirBasics ==
    << [tconst |-> "t1", titleType |-> "movie", primaryTitle |-> <<"a", "b">>, isAdult |-> "0"],
       [tconst |-> "t2", titleType |-> "movie", primaryTitle |-> <<" ", "B">>, isAdult |-> "0"],
       [tconst |-> "t3", titleType |-> "movie", primaryTitle |-> <<"-", "b">>, isAdult |-> "0"],
       [tconst |-> "t4", titleType |-> "movie", primaryTitle |-> <<"-", "-">>, isAdult |-> "0"],
       [tconst |-> "t5", titleType |-> "short", primaryTitle |-> <<"A">>, isAdult |-> "0"],
       [tconst |-> "t6", titleType |-> "movie", primaryTitle |-> <<"b">>, isAdult |-> "1"] >>

DirRatingValue == [t \in {"t1", "t2", "t3", "t4", "t5", "t6"} |->
                      CASE t = "t1" -> 5 [] t = "t2" -> 8 [] t = "t3" -> 6 [] OTHER -> 9]

VoteValues == {0, MaxVotes}

DirRatings(v1, v2, v3) ==
    << [tconst |-> "t1", averageRating |-> DirRatingValue["t1"], numVotes |-> v1],
       [tconst |-> "t2", averageRating |-> DirRatingValue["t2"], numVotes |-> v2],
       [tconst |-> "t3", averageRating |-> DirRatingValue["t3"], numVotes |-> v3],
       [tconst |-> "t4", averageRating |-> DirRatingValue["t4"], numVotes |-> MaxVotes],
       [tconst |-> "t5", averageRating |-> DirRatingValue["t5"], numVotes |-> MaxVotes],
       [tconst |-> "t6", averageRating |-> DirRatingValue["t6"], numVotes |-> MaxVotes] >>

DirectorLists == {NAText, <<"d1">>, <<"d2">>, <<"d1", Comma, "d2">>, <<"d1", Comma, "d1">>}

DirCrew(c1, c2, c3, c4) ==
    << [tconst |-> "t1", directors |-> c1], [tconst |-> "t2", directors |-> c2],
       [tconst |-> "t3", directors |-> c3], [tconst |-> "t4", directors |-> c4],
       [tconst |-> "t5", directors |-> <<"d1", Comma, "d2">>],
       [tconst |-> "t6", directors |-> <<"d2", Comma, "d1">>] >>

\* name.basics: absent persons, a person listed twice, a person without a name
NameFiles ==
    { <<>>,
      << [nconst |-> "d1", primaryName |-> <<"A">>], [nconst |-> "d3", primaryName |-> <<"B">>],
         [nconst |-> "d2", primaryName |-> NAText], [nconst |-> "d1", primaryName |-> <<"B">>] >> }

DInit ==
    /\ \E v1, v2, v3 \in VoteValues :
       \E c1, c2, c3 \in DirectorLists : \E c4 \in {NAText, <<"d1">>} :
       \E names \in NameFiles :
       \E min_votes \in {0, 1} : \E min_movies \in 1..MaxMinMovies : \E top_n \in (0 - 1)..MaxTopN :
          d_in = [basics |-> DirBasics, ratings |-> DirRatings(v1, v2, v3),
                  crew |-> DirCrew(c1, c2, c3, c4), names |-> names,
                  min_votes |-> min_votes, min_movies |-> min_movies, top_n |-> top_n]
    /\ d_results = <<>>
    /\ d_out = <<>>
    /\ d_pc = "main"

\* main, line 244: the call of analyze_preferences; an error leaves main
DAnalyze ==
    /\ d_pc = "main"
    /\ d_results' = analyze_preferences(d_in)
    /\ d_pc' = IF d_results'.status = "returned" THEN "report" ELSE "failed"
    /\ UNCHANGED <<d_in, d_out, clVars, ltVars, lVars, aVars, crVars, nmVars>>

\* main, lines 251-254: the four print calls, one at a time
DReportLines ==
    << <<"Directors considered:", d_results.global.directors_considered>>,
       <<"Movies considered:", d_results.global.movies_considered>>,
       <<>>,
       d_results.preferences >>

DPrint ==
    /\ d_pc = "report"
    /\ d_out' = Append(d_out, DReportLines[Len(d_out) + 1])
    /\ d_pc' = IF Len(d_out') = Len(DReportLines) THEN "exit" ELSE "report"
    /\ UNCHANGED <<d_in, d_results, clVars, ltVars, lVars, aVars, crVars, nmVars>>

DirectorInit == DInit /\ ClIdle /\ LtIdle /\ LIdle /\ AIdle /\ CrIdle /\ NmIdle

DirectorNext == DAnalyze \/ DPrint

DirectorSpec == DirectorInit /\ [][DirectorNext]_vars

----------------------------------------------------------------------------
(* Specification of the letter/rating analysis *)

\* what a title.basics row says of the kind of title
BasicsKinds == {[titleType |-> "movie", isAdult |-> "0"],
                [titleType |-> "movie", isAdult |-> "1"],
                [titleType |-> "short", isAdult |-> "0"]}

LetterBasics(k3) ==
    << [tconst |-> "t1", titleType |-> "movie", primaryTitle |-> <<"a">>, isAdult |-> "0"],
       [tconst |-> "t2", titleType |-> "movie", primaryTitle |-> <<"A", "7">>, isAdult |-> "0"],
       [tconst |-> "t3", titleType |-> k3.titleType, primaryTitle |-> <<"7">>,
        isAdult |-> k3.isAdult] >>

LetterRatings(v1, v2, v3) ==
    << [tconst |-> "t1", averageRating |-> 5, numVotes |-> v1],
       [tconst |-> "t2", averageRating |-> 8, numVotes |-> v2],
       [tconst |-> "t3", averageRating |-> 5, numVotes |-> v3] >>

AkasOf(t, ordering, text, region, flag) ==
    [titleId |-> t, ordering |-> ordering, title |-> text, region |-> region,
     isOriginalTitle |-> flag]

\* the title.akas rows of one title: released elsewhere only; an Indian alias
\* under B; an Indian row without a text; an Indian alias without a letter; a
\* non-original alias without a letter ahead of an original alias under B
AliasOptions == {"abroad", "alias", "notext", "noletter", "pair"}

AliasRows(t, option) ==
    CASE option = "abroad" -> <<AkasOf(t, 1, <<"b">>, "US", "1")>>
      [] option = "alias" -> <<AkasOf(t, 1, <<"b">>, "IN", "0")>>
      [] option = "notext" -> <<AkasOf(t, 1, NAText, "IN", NA)>>
      [] option = "noletter" -> <<AkasOf(t, 1, <<"-">>, "IN", "1")>>
      [] OTHER -> <<AkasOf(t, 1, <<"-", " ">>, "IN", NA), AkasOf(t, 2, <<"b">>, "IN", "1")>>

LInit ==
    /\ \E v1, v2, v3 \in VoteValues : \E o1, o2, o3 \in AliasOptions : \E min_votes \in {0, 1} :
       \E k3 \in BasicsKinds :
          l_in = [akas |-> AliasRows("t1", o1) \o AliasRows("t2", o2) \o AliasRows("t3", o3),
                  basics |-> LetterBasics(k3), ratings |-> LetterRatings(v1, v2, v3),
                  min_votes |-> min_votes]
    /\ l_results = <<>>
    /\ l_out = <<>>
    /\ l_pc = "main"

\* main, line 124: the call of analyze; an error leaves main
LAnalyze ==
    /\ l_pc = "main"
    /\ l_results' \in analyze(l_in)
    /\ l_pc' = IF l_results'.status = "returned" THEN "report" ELSE "failed"
    /\ UNCHANGED <<l_in, l_out, clVars, ltVars, dVars, aVars, crVars, nmVars>>

\* main, lines 126-138: the print calls, one at a time
LReportLines ==
    LET stats == l_results.stats
    IN  << <<"Movies analyzed:", stats.movie_count>>,
           <<"Unique initials:", stats.letter_count>>,
           <<"Overall mean rating:", Fmt(stats.overall_mean, 2)>>,
           <<"Overall weighted mean rating:", Fmt(stats.overall_weighted_mean, 2)>>,
           <<"Eta squared (effect size):", Fmt(stats.eta_squared, 4)>> >>
        \o (IF notna(stats.f_statistic)
            THEN << <<"F statistic:", Fmt(stats.f_statistic, 3), stats.df_between, stats.df_within>> >>
            ELSE <<>>)
        \o << <<>>, format_table(l_results.group) >>

\* a report that breaks off after its first line
LPrintAborting ==
    /\ l_pc = "report"
    /\ l_out' = Append(l_out, LReportLines[Len(l_out) + 1])
    /\ l_pc' = "failed"
    /\ UNCHANGED <<l_in, l_results, clVars, ltVars, dVars, aVars, crVars, nmVars>>

LPrint ==
    /\ l_pc = "report"
    /\ l_out' = Append(l_out, LReportLines[Len(l_out) + 1])
    /\ l_pc' = IF Len(l_out') = Len(LReportLines) THEN "exit" ELSE "report"
    /\ UNCHANGED <<l_in, l_results, clVars, ltVars, dVars, aVars, crVars, nmVars>>

LetterInit == LInit /\ ClIdle /\ LtIdle /\ DIdle /\ AIdle /\ CrIdle /\ NmIdle

LetterNext == LAnalyze \/ LPrint

LetterSpec == LetterInit /\ [][LetterNext]_vars

(* Both analyses: a run is a run of one of the two programs *)

AnalysesInit == DirectorInit \/ LetterInit

AnalysesNext == DAnalyze \/ DPrint \/ LAnalyze \/ LPrint

AnalysesSpec == AnalysesInit /\ [][AnalysesNext]_vars

----------------------------------------------------------------------------
(* Properties of the title deduplicator *)

IsOriginal(r) == r.isOriginalTitle = "1"

\* the file rows of title t released in the target region
RegionRows(t) == {i \in 1..Len(lt_akas) : lt_akas[i].titleId = t /\ lt_akas[i].region = "IN"}

\* the rows the selection rule allows: the original-title flag as high as any
\* same-region row has it, and among those the smallest ordering
BestRows(t) ==
    LET top == {i \in RegionRows(t) :
                   \A j \in RegionRows(t) : IsOriginal(lt_akas[j]) => IsOriginal(lt_akas[i])}
    IN  {i \in top : \A j \in top : lt_akas[i].ordering <= lt_akas[j].ordering}

KeptRows(t) == {k \in 1..Len(lt_preferred) : lt_preferred[k].tconst = t}

\* C1: after load_indian_titles, every titleId with a row of the target region
\* has exactly one result row, whose text is the text of a same-region row with
\* the highest isOriginalTitle and, among those, the smallest ordering; a
\* titleId without a same-region row has no result row.
C1_Dedup ==
    lt_pc = "returned" =>
        \A t \in AkasTitleIds :
            IF RegionRows(t) = {} THEN KeptRows(t) = {}
            ELSE /\ Cardinality(KeptRows(t)) = 1
                 /\ \A k \in KeptRows(t) :
                        \E i \in BestRows(t) : lt_preferred[k].regionalTitle = lt_akas[i].title

\* a title whose kept alias is a later, original-title row of the region, while
\* an earlier non-original row of the region and a row of another region with a
\* smaller ordering are passed over
C1_Witness ==
    /\ lt_pc = "returned"
    /\ \E t \in AkasTitleIds : \E i, j, u \in 1..Len(lt_akas) :
          /\ i < j
          /\ {i, j} \subseteq RegionRows(t)
          /\ ~IsOriginal(lt_akas[i]) /\ IsOriginal(lt_akas[j])
          /\ lt_akas[u].titleId = t /\ lt_akas[u].region # "IN"
          /\ IsOriginal(lt_akas[u]) /\ lt_akas[u].ordering < lt_akas[j].ordering
          /\ \E k \in KeptRows(t) : lt_preferred[k].regionalTitle = lt_akas[j].title

----------------------------------------------------------------------------
(* Properties of the classifier *)

\* the upper-case form of each letter, written out
UpperOf == [c \in LowerChars \cup UpperChars |->
               IF c \in {"a", "A"} THEN "A" ELSE "B"]

\* positions of the trimmed title that hold a letter or a digit
KeyPositions(s) == {i \in 1..Len(s) : isalpha(s[i]) \/ isdigit(s[i])}

FirstOf(P) == CHOOSE i \in P : \A j \in P : i <= j

\* C2: extract_first_letter returns the upper-cased first letter when a letter
\* comes before any digit, "#" when a digit comes before any letter, and nothing
\* when the trimmed title has neither or the argument is not a string; other
\* characters are skipped.
C2_Classifier ==
    cl_pc = "returned" =>
        IF cl_title = NAText THEN cl_key = NA
        ELSE LET s == strip(cl_title)
                 P == KeyPositions(s)
             IN  IF P = {} THEN cl_key = NA
                 ELSE IF isalpha(s[FirstOf(P)]) THEN cl_key = UpperOf[s[FirstOf(P)]]
                 ELSE cl_key = "#"

\* a lower-case letter found behind a skipped character, with a digit after it
C2_Witness ==
    /\ cl_pc = "returned"
    /\ cl_title # NAText
    /\ Len(cl_title) = 3
    /\ cl_title[1] = "-" /\ cl_title[2] = "b" /\ cl_title[3] = "7"
    /\ cl_key = "B"

----------------------------------------------------------------------------
(* The director analysis, read off the input files *)

RECURSIVE SetSum(_, _)
SetSum(S, f) ==
    IF S = {} THEN 0 ELSE LET x == CHOOSE y \in S : TRUE IN f[x] + SetSum(S \ {x}, f)

DTitleIds == {d_in.basics[i].tconst : i \in 1..Len(d_in.basics)}

\* titles that are movies, not adult titles, and rated with enough votes
DRated(t) == \E r \in Range(d_in.ratings) : r.tconst = t /\ r.numVotes >= d_in.min_votes
DMovie(t) == \E b \in Range(d_in.basics) : b.tconst = t /\ b.titleType = "movie" /\ b.isAdult # "1"

DRatingOf(t) == (CHOOSE r \in Range(d_in.ratings) : r.tconst = t).averageRating
DVotesOf(t) == (CHOOSE r \in Range(d_in.ratings) : r.tconst = t).numVotes
DKeyOf(t) == extract_first_letter((CHOOSE b \in Range(d_in.basics) : b.tconst = t).primaryTitle)

\* the persons named in the directors list of title t
DListed(t) ==
    UNION {Range(c.directors) \ {Comma} : c \in {x \in Range(d_in.crew) :
                                                    x.tconst = t /\ x.directors # NAText}}

DDirectors == UNION {DListed(t) : t \in DTitleIds}
DLetters == {"#", "A", "B"}

\* the analysed titles of director d, and those filed under letter c
Films(d) == {t \in DTitleIds : DRated(t) /\ DMovie(t) /\ d \in DListed(t) /\ DKeyOf(t) # NA}
FilmsAt(d, c) == {t \in Films(d) : DKeyOf(t) = c}

MeanRating(T) == Rat(SetSum(T, [t \in T |-> DRatingOf(t)]), Cardinality(T))
TotalVotes(T) == SetSum(T, [t \in T |-> DVotesOf(t)])

ShareOf(d, c) == Rat(Cardinality(FilmsAt(d, c)), Cardinality(Films(d)))

\* letter c is preferred to letter e by director d: larger share, then larger
\* count, then the letter that comes first
PreferredTo(d, c, e) ==
    \/ RatLess(ShareOf(d, e), ShareOf(d, c))
    \/ /\ RatEq(ShareOf(d, e), ShareOf(d, c))
       /\ \/ Cardinality(FilmsAt(d, c)) > Cardinality(FilmsAt(d, e))
          \/ /\ Cardinality(FilmsAt(d, c)) = Cardinality(FilmsAt(d, e))
             /\ LetterOrder(c) < LetterOrder(e)

UsedLetters(d) == {c \in DLetters : FilmsAt(d, c) # {}}

IsPreferredLetter(d, c) ==
    c \in UsedLetters(d) /\ \A e \in UsedLetters(d) \ {c} : PreferredTo(d, c, e)

EligibleSet == {d \in DDirectors : Cardinality(Films(d)) >= d_in.min_movies /\ Films(d) # {}}

\* analyze_preferences has just returned, or has just returned or raised; the
\* print calls that follow leave d_results as it is
DReturned == d_pc = "report" /\ d_out = <<>>
DCalled == d_pc = "failed" \/ DReturned
DPrefs == d_results.preferences
DReported == {DPrefs[i].nconst : i \in 1..Len(DPrefs)}

\* C3: every reported director's preferred letter has the largest share of the
\* director's titles, ties going to the larger count and then to the letter that
\* comes first; the reported share is preferred_count / movie_count and lies in
\* (0, 1].
C3_PreferredLetter ==
    DReturned =>
        \A i \in 1..Len(DPrefs) :
            LET p == DPrefs[i] IN
            /\ IsPreferredLetter(p.nconst, p.preferred_letter)
            /\ p.preferred_count = Cardinality(FilmsAt(p.nconst, p.preferred_letter))
            /\ p.movie_count = Cardinality(Films(p.nconst))
            /\ RatEq(p.preferred_share, Rat(p.preferred_count, p.movie_count))
            /\ RatLess(Rat(0, 1), p.preferred_share)
            /\ ~RatLess(Rat(1, 1), p.preferred_share)

\* a reported director with more titles under B than under A, and one with as
\* many under A as under B
C3_Witness ==
    /\ DReturned
    /\ \E i, j \in 1..Len(DPrefs) :
          /\ DPrefs[i].preferred_letter = "B"
          /\ FilmsAt(DPrefs[i].nconst, "A") # {}
          /\ DPrefs[j].preferred_letter = "A"
          /\ Cardinality(FilmsAt(DPrefs[j].nconst, "A")) = Cardinality(FilmsAt(DPrefs[j].nconst, "B"))

\* the ranking key of a row: share, then movie count, then preferred mean
KeyNotBelow(s1, n1, m1, s2, n2, m2) ==
    \/ RatLess(s2, s1)
    \/ RatEq(s1, s2) /\ n1 > n2
    \/ RatEq(s1, s2) /\ n1 = n2 /\ ~RatLess(m1, m2)

TruePreferred(d) == CHOOSE c \in DLetters : IsPreferredLetter(d, c)

Min(a, b) == IF a < b THEN a ELSE b

\* C4: the preferences are in the order share descending, movie count
\* descending, preferred mean descending, hold a director at most once, and are
\* the first top_n rows of that order over all eligible directors (top_n >= 0).
C4_Ranking ==
    (DReturned /\ d_in.top_n >= 0) =>
        /\ \A i, j \in 1..Len(DPrefs) : i # j => DPrefs[i].nconst # DPrefs[j].nconst
        /\ DReported \subseteq EligibleSet
        /\ Len(DPrefs) = Min(d_in.top_n, Cardinality(EligibleSet))
        /\ \A i \in 1..(Len(DPrefs) - 1) :
              KeyNotBelow(DPrefs[i].preferred_share, DPrefs[i].movie_count, DPrefs[i].preferred_mean,
                          DPrefs[i + 1].preferred_share, DPrefs[i + 1].movie_count,
                          DPrefs[i + 1].preferred_mean)
        /\ \A i \in 1..Len(DPrefs) : \A e \in EligibleSet \ DReported :
              KeyNotBelow(DPrefs[i].preferred_share, DPrefs[i].movie_count, DPrefs[i].preferred_mean,
                          ShareOf(e, TruePreferred(e)), Cardinality(Films(e)),
                          MeanRating(FilmsAt(e, TruePreferred(e))))

\* two eligible directors of equal share, the one with fewer titles and the
\* higher preferred mean listed in the input first, cut to one row
C4_Witness ==
    /\ DReturned
    /\ d_in.top_n = 1
    /\ Len(DPrefs) = 1
    /\ EligibleSet = {"d1", "d2"}
    /\ DPrefs[1].nconst = "d2"
    /\ RatEq(ShareOf("d1", TruePreferred("d1")), ShareOf("d2", TruePreferred("d2")))
    /\ Cardinality(Films("d1")) < Cardinality(Films("d2"))
    /\ RatLess(DPrefs[1].preferred_mean, MeanRating(FilmsAt("d1", TruePreferred("d1"))))

\* C5: a returned preference row is of a director with at least min_movies
\* titles, all such directors are considered (counted, and listed when top_n
\* allows), and when there is none the call raises instead of returning.
C5_Eligibility ==
    DCalled =>
        /\ EligibleSet = {} => d_results.status = "raised" /\ d_pc = "failed"
        /\ d_results.status = "returned" =>
              /\ \A i \in 1..Len(DPrefs) : DPrefs[i].movie_count >= d_in.min_movies
              /\ DReported \subseteq EligibleSet
              /\ d_results.global.directors_considered = Cardinality(EligibleSet)
              /\ d_in.top_n >= Cardinality(EligibleSet) => DReported = EligibleSet

\* directors with analysed titles, none of them with min_movies of them
C5_Witness ==
    /\ d_pc = "failed"
    /\ DirectorMerged(d_in) # <<>>
    /\ \E d \in DDirectors : Films(d) # {}
    /\ EligibleSet = {}
    /\ d_results.error = "No directors met the minimum movie requirement"

\* C6: a (director, title) pair counts at most once in the director's
\* per-letter counts and overall count, however often the join repeats it.
C6_PairDedup ==
    DCalled =>
        LET rows == AnalysisRows(d_in)
            letter_stats == LetterStats(rows)
            director_totals == DirectorTotals(rows)
        IN  /\ \A i \in 1..Len(letter_stats) :
                  letter_stats[i].movie_count
                      <= Cardinality(FilmsAt(letter_stats[i].nconst, letter_stats[i].firstLetter))
            /\ \A i \in 1..Len(director_totals) :
                  director_totals[i].movie_count <= Cardinality(Films(director_totals[i].nconst))
            /\ d_results.status = "returned" =>
                  \A i \in 1..Len(DPrefs) :
                      /\ DPrefs[i].movie_count <= Cardinality(Films(DPrefs[i].nconst))
                      /\ DPrefs[i].preferred_count
                             <= Cardinality(FilmsAt(DPrefs[i].nconst, DPrefs[i].preferred_letter))

\* the number of joined rows of director d and title t
JoinedRows(d, t) ==
    LET merged == DirectorMerged(d_in)
    IN  {i \in 1..Len(merged) : merged[i].nconst = d /\ merged[i].tconst = t}

\* a reported director named twice in one title's list and twice in the name
\* table, so that the join holds the pair four times
C6_Witness ==
    /\ DReturned
    /\ \E i \in 1..Len(DPrefs) : \E t \in Films(DPrefs[i].nconst) :
          /\ Cardinality(JoinedRows(DPrefs[i].nconst, t)) = 4
          /\ DPrefs[i].movie_count = Cardinality(Films(DPrefs[i].nconst))

\* C7 (as claimed): when the preferred letter's titles have no votes the
\* reported preferred weighted mean is the mean rating of those titles, and when
\* the director's titles have no votes the reported overall weighted mean is the
\* director's mean rating.
C7_Fallback ==
    DReturned =>
        \A i \in 1..Len(DPrefs) :
            LET p == DPrefs[i]
                T == FilmsAt(p.nconst, p.preferred_letter)
            IN  /\ TotalVotes(T) = 0 => RatEq(p.preferred_weighted_mean, MeanRating(T))
                /\ TotalVotes(Films(p.nconst)) = 0 =>
                       RatEq(p.overall_weighted_mean, MeanRating(Films(p.nconst)))

\* a reported director whose preferred letter has titles without any votes,
\* and who has a title with votes under another letter
C7_Case ==
    /\ DReturned
    /\ \E i \in 1..Len(DPrefs) :
          /\ TotalVotes(FilmsAt(DPrefs[i].nconst, DPrefs[i].preferred_letter)) = 0
          /\ TotalVotes(Films(DPrefs[i].nconst)) > 0

----------------------------------------------------------------------------
(* The letter/rating analysis, read off its result and the joined rows *)

LReturned == l_pc = "report" /\ l_out = <<>>
LCalled == l_pc = "failed" \/ LReturned

\* the classification key of a joined row: of the alias when there is one, of
\* the primary title otherwise
LKeyOf(row) ==
    extract_first_letter(IF row.regionalTitle = NAText THEN row.primaryTitle
                         ELSE row.regionalTitle)

LDefined == LET merged == LetterMerged(l_in)
            IN  {i \in 1..Len(merged) : LKeyOf(merged[i]) # NA}

\* C8 (as claimed): a letter group without any votes has no weighted mean, and
\* the table reports the group's mean rating as its weighted average.
C8_Fallback ==
    l_pc = "exit" =>
        LET group == l_results.group
            table == l_out[Len(l_out)]
        IN  \A i \in 1..Len(group) :
                group[i].total_votes = 0 =>
                    /\ isnan(group[i].weighted_mean)
                    /\ table[i + 1].WeightedAvg = Fmt(group[i].mean, 2)

\* C9 (as claimed): when the join has rows and none of them has a key, analyze
\* raises and returns no statistics.
C9_EmptyGrouping ==
    (LCalled /\ LetterMerged(l_in) # <<>> /\ LDefined = {}) =>
        l_results.status = "raised" /\ l_pc = "failed"

----------------------------------------------------------------------------
(* Both analyses: what is aggregated *)

DDefined == LET merged == DirectorMerged(d_in)
            IN  {i \in 1..Len(merged) : extract_first_letter(merged[i].primaryTitle) # NA}

\* the (director, title) pairs among the joined rows that have a key
DDefinedPairs == LET merged == DirectorMerged(d_in)
                 IN  {<<merged[i].nconst, merged[i].tconst>> : i \in DDefined}

DAggregated == DCalled /\ DirectorMerged(d_in) # <<>>

LetterCoverage ==
    LReturned =>
        LET merged == LetterMerged(l_in)
            group == l_results.group
        IN  /\ SumOver(group, "count") = Cardinality(LDefined)
            /\ l_results.stats.movie_count = Cardinality(LDefined)
            /\ SumOver(group, "sum") = SetSum(LDefined, [i \in LDefined |-> merged[i].averageRating])
            /\ SumOver(group, "total_votes") = SetSum(LDefined, [i \in LDefined |-> merged[i].numVotes])

DirectorCoverage(expected, votes) ==
    DAggregated =>
        LET rows == AnalysisRows(d_in)
            letter_stats == LetterStats(rows)
            director_totals == DirectorTotals(rows)
        IN  /\ SumOver(letter_stats, "movie_count") = expected
            /\ SumOver(director_totals, "movie_count") = expected
            /\ SumOver(letter_stats, "total_votes") = votes
            /\ SumOver(director_totals, "total_votes") = votes

\* C10 (as claimed): in both analyses the group counts add up to the number of
\* joined rows that have a key, and rows without a key add nothing to a count,
\* a sum, a vote total or a director total.
C10_CoverageJoinedRows ==
    /\ LetterCoverage
    /\ DirectorCoverage(Cardinality(DDefined),
                        LET merged == DirectorMerged(d_in)
                        IN  SetSum(DDefined, [i \in DDefined |-> merged[i].numVotes]))

\* C10 (amended): as claimed for the letter/rating analysis; in the director
\* analysis the group counts add up to the number of distinct (director, title)
\* pairs among the joined rows that have a key.
C10_CoveragePairs ==
    /\ LetterCoverage
    /\ DirectorCoverage(Cardinality(DDefinedPairs),
                        SetSum(DDefinedPairs, [p \in DDefinedPairs |-> DVotesOf(p[2])]))

\* a director analysis whose join holds a row without a key and repeats a
\* (director, title) pair that has one
C10_Witness ==
    /\ DAggregated
    /\ DDefined # {}
    /\ Cardinality(DDefined) < Len(DirectorMerged(d_in))
    /\ Cardinality(DDefinedPairs) < Cardinality(DDefined)

\* a letter/rating analysis that returned although the join has a row without
\* a key
C10_LetterCase ==
    /\ LReturned
    /\ LDefined # {}
    /\ Cardinality(LDefined) < Len(LetterMerged(l_in))


----------------------------------------------------------------------------
(* Rounded arithmetic.  The program's floats are binary: a float is m * 2^e
   with |m| < 2^MantissaBits, and every operation returns the float nearest
   to its exact result, ties to the even mantissa.  The floats of the program
   carry 53 bits; the operations below round the same way to MantissaBits.
   Exponents are not bounded: nothing here overflows or underflows. *)

MantissaBits == 13

RECURSIVE Pow2(_)
Pow2(n) == IF n = 0 THEN 1 ELSE 2 * Pow2(n - 1)

RECURSIVE BitLength(_)
BitLength(n) == IF n = 0 THEN 0 ELSE 1 + BitLength(n \div 2)

Sign(n) == IF n < 0 THEN 0 - 1 ELSE 1

Float(m, e) == [nan |-> FALSE, m |-> m, e |-> e]
FloatNaN == [nan |-> TRUE, m |-> 0, e |-> 0]
FloatZero == Float(0, 0)

\* the float nearest to n * 2^e.  inexact: the exact result lies beyond
\* n * 2^e, away from zero, by less than 2^e (a division with a remainder)
RoundFloat(n, e, inexact) ==
    LET a == Abs(n)
        drop == BitLength(a) - MantissaBits
        q == a \div Pow2(drop)
        r == a % Pow2(drop)
        half == Pow2(drop - 1)
        up == r > half \/ (r = half /\ (inexact \/ q % 2 = 1))
        m == IF up THEN q + 1 ELSE q
    IN  IF a = 0 THEN FloatZero
        ELSE IF drop <= 0 THEN Float(n * Pow2(0 - drop), e + drop)
        ELSE IF m = Pow2(MantissaBits) THEN Float(Sign(n) * Pow2(MantissaBits - 1), e + drop + 1)
        ELSE Float(Sign(n) * m, e + drop)

FromInt(n) == RoundFloat(n, 0, FALSE)

\* x + y: past MantissaBits + 1 places of distance the smaller operand is
\* less than a quarter of the last place of the larger and rounds away
FloatAdd(x, y) ==
    IF x.nan \/ y.nan THEN FloatNaN
    ELSE IF x.m = 0 THEN y
    ELSE IF y.m = 0 THEN x
    ELSE LET hi == IF x.e >= y.e THEN x ELSE y
             lo == IF x.e >= y.e THEN y ELSE x
             d == hi.e - lo.e
         IN  IF d >= MantissaBits + 2 THEN hi
             ELSE RoundFloat(hi.m * Pow2(d) + lo.m, lo.e, FALSE)

FloatNeg(x) == IF x.nan THEN FloatNaN ELSE Float(0 - x.m, x.e)
FloatSub(x, y) == FloatAdd(x, FloatNeg(y))

FloatMul(x, y) ==
    IF x.nan \/ y.nan THEN FloatNaN ELSE RoundFloat(x.m * y.m, x.e + y.e, FALSE)

\* x / y; 0.0 / 0 is NaN.  The quotient is taken to MantissaBits + 1 places
\* at least, and the remainder decides a tie
FloatDiv(x, y) ==
    IF x.nan \/ y.nan THEN FloatNaN
    ELSE IF y.m = 0 THEN FloatNaN
    ELSE IF x.m = 0 THEN FloatZero
    ELSE LET n == Abs(x.m) * Pow2(MantissaBits + 1)
         IN  RoundFloat(Sign(x.m) * Sign(y.m) * (n \div Abs(y.m)),
                        x.e - y.e - (MantissaBits + 1), n % Abs(y.m) # 0)

FloatPositive(x) == ~x.nan /\ x.m > 0

\* an averageRating field of title.ratings, one decimal: the digits as an
\* integer, divided by ten
ParseRating(tenths) == FloatDiv(FromInt(tenths), FromInt(10))

\* Series.sum: the values added from the first to the last
RECURSIVE FloatSumTo(_, _)
FloatSumTo(s, n) == IF n = 0 THEN FloatZero ELSE FloatAdd(FloatSumTo(s, n - 1), s[n])

FloatSum(s) == FloatSumTo(s, Len(s))

\* the sum of a groupby aggregation: compensated (Kahan) summation
RECURSIVE KahanSumTo(_, _)
KahanSumTo(s, n) ==
    IF n = 0 THEN [sumx |-> FloatZero, compensation |-> FloatZero]
    ELSE LET acc == KahanSumTo(s, n - 1)
             y == FloatSub(s[n], acc.compensation)
             t == FloatAdd(acc.sumx, y)
         IN  [sumx |-> t, compensation |-> FloatSub(FloatSub(t, acc.sumx), y)]

GroupSum(s) == KahanSumTo(s, Len(s)).sumx

----------------------------------------------------------------------------
(* Specification of the ANOVA of letter_rating_analysis.analyze on one-decimal
   ratings.  The ratings of LetterSpec are small integers, on which no
   operation of the sums of squares rounds; here they are the decimals of
   title.ratings, which have no exact binary form. *)

MaxLetters == 2      \* groups of the grouping
MaxGroupRows == 3    \* titles filed under one letter

\* averageRating in tenths: 1.0, 1.2, 1.3
RatingTenths == {10, 12, 13}

\* analyze, lines 50-61: count, mean, sum and sum_sq of one letter's ratings
FloatGroupStats(tenths) ==
    LET averageRating == [i \in 1..Len(tenths) |-> ParseRating(tenths[i])]
        ratingSq == [i \in 1..Len(tenths) |-> FloatMul(averageRating[i], averageRating[i])]
    IN  [count |-> Len(tenths),
         mean |-> FloatDiv(GroupSum(averageRating), FromInt(Len(tenths))),
         sum |-> GroupSum(averageRating),
         sum_sq |-> GroupSum(ratingSq)]

\* compute_anova_components, on floats
compute_anova_components_float(group_stats) ==
    LET n == Len(group_stats)
        total_count == SumOver(group_stats, "count")
        overall_mean == FloatDiv(FloatSum([i \in 1..n |-> group_stats[i].sum]),
                                 FromInt(total_count))
        ss_between ==
            FloatSum([i \in 1..n |->
                         LET dev == FloatSub(group_stats[i].mean, overall_mean)
                         IN  FloatMul(FloatMul(dev, dev), FromInt(group_stats[i].count))])
        ss_within ==
            FloatSum([i \in 1..n |->
                         FloatSub(group_stats[i].sum_sq,
                                  FloatDiv(FloatMul(group_stats[i].sum, group_stats[i].sum),
                                           FromInt(group_stats[i].count)))])
    IN  [ss_between |-> ss_between, ss_within |-> ss_within,
         ss_total |-> FloatAdd(ss_between, ss_within)]

\* analyze, lines 66-78: the sums of squares and the effect size
AnovaStats(ratings) ==
    LET group == [i \in 1..Len(ratings) |-> FloatGroupStats(ratings[i])]
        ss == compute_anova_components_float(group)
    IN  [letter_count |-> Len(group),
         movie_count |-> SumOver(group, "count"),
         ss_between |-> ss.ss_between,
         ss_within |-> ss.ss_within,
         ss_total |-> ss.ss_total,
         eta_squared |-> IF FloatPositive(ss.ss_total)
                         THEN FloatDiv(ss.ss_between, ss.ss_total) ELSE FloatNaN]

LetterRatingLists == SeqsUpTo(RatingTenths, MaxGroupRows) \ {<<>>}

AInit ==
    /\ a_ratings \in SeqsUpTo(LetterRatingLists, MaxLetters) \ {<<>>}
    /\ a_stats = <<>>
    /\ a_pc = "call"

AAnalyze ==
    /\ a_pc = "call"
    /\ a_stats' = AnovaStats(a_ratings)
    /\ a_pc' = "returned"
    /\ UNCHANGED <<a_ratings, clVars, ltVars, dVars, lVars, crVars, nmVars>>

AnovaInit == AInit /\ ClIdle /\ LtIdle /\ DIdle /\ LIdle /\ CrIdle /\ NmIdle

AnovaSpec == AnovaInit /\ [][AAnalyze]_vars

(* Properties of the effect size *)

FloatOne == FromInt(1)
FloatNegative(x) == ~x.nan /\ x.m < 0
FloatLess(x, y) == ~x.nan /\ ~y.nan /\ FloatSub(x, y).m < 0

\* C11: for every non-empty grouping the sums of squares between and within
\* the letters are not negative and add up to the total; a positive total
\* gives an eta squared of SS_between / SS_total within [0, 1], a total of
\* zero gives no eta squared (NaN)
C11_EffectSize ==
    a_pc = "returned" =>
        /\ ~FloatNegative(a_stats.ss_between)
        /\ ~FloatNegative(a_stats.ss_within)
        /\ a_stats.ss_total = FloatAdd(a_stats.ss_between, a_stats.ss_within)
        /\ FloatPositive(a_stats.ss_total) =>
              /\ a_stats.eta_squared = FloatDiv(a_stats.ss_between, a_stats.ss_total)
              /\ ~FloatNegative(a_stats.eta_squared)
              /\ ~FloatLess(FloatOne, a_stats.eta_squared)
        /\ a_stats.ss_total = FloatZero => a_stats.eta_squared.nan

\* the ratings 1.3, 1.3, 1.3 under one letter and 1.0 under another: rounding
\* leaves a negative SS_within and an eta squared above one
C11_NegativeWithin ==
    /\ a_pc = "returned"
    /\ a_ratings = <<<<13, 13, 13>>, <<10>>>>
    /\ FloatNegative(a_stats.ss_within)
    /\ FloatLess(FloatOne, a_stats.eta_squared)

----------------------------------------------------------------------------
(* Properties of the two main functions *)

\* the lines written so far are the first lines of the report
IsReportPrefix(out, report) == out = SubSeq(report, 1, Len(out))

\* C12: a run of either analysis whose loading, joining, aggregation or
\* ranking failed has written no report line, nothing is written before the
\* analysis has returned, the lines written are the report's from its first
\* line on, and a run that ends has written the whole report or nothing
C12_FailFast ==
    /\ d_pc \in {"main", "failed"} => d_out = <<>>
    /\ d_pc = "report" => IsReportPrefix(d_out, DReportLines)
    /\ d_pc = "exit" => d_out = DReportLines
    /\ l_pc \in {"main", "failed"} => l_out = <<>>
    /\ l_pc = "report" => IsReportPrefix(l_out, LReportLines)
    /\ l_pc = "exit" => l_out = LReportLines

\* a director analysis that failed: no director was left to report
C12_Witness ==
    /\ d_pc = "failed"
    /\ d_results.status # "returned"
    /\ d_out = <<>>

----------------------------------------------------------------------------
(* Specification of load_director_assignments on any directors field *)

MaxCrewRows == 2     \* longest title.crew file
MaxListLen == 3      \* symbols of a directors field: identifiers and commas

\* the directors fields: missing, or identifiers and commas in any
\* arrangement that leaves no two identifiers adjacent
CrewLists ==
    {NAText} \cup
    {s \in SeqsUpTo({"d1", "d2", Comma}, MaxListLen) :
        \A i \in 1..(Len(s) - 1) : s[i] = Comma \/ s[i + 1] = Comma}

CrInit ==
    /\ cr_crew \in SeqsUpTo([tconst : {"t1", "t2"}, directors : CrewLists], MaxCrewRows)
    /\ cr_pairs = <<>>
    /\ cr_pc = "call"

LoadDirectorAssignments ==
    /\ cr_pc = "call"
    /\ cr_pairs' = load_director_assignments(cr_crew)
    /\ cr_pc' = "returned"
    /\ UNCHANGED <<cr_crew, clVars, ltVars, dVars, lVars, aVars, nmVars>>

CrewInit == CrInit /\ ClIdle /\ LtIdle /\ DIdle /\ LIdle /\ AIdle /\ NmIdle

CrewSpec == CrewInit /\ [][LoadDirectorAssignments]_vars

(* Properties of the director-list expansion *)

\* the identifiers a directors field names, in order
TokensOf(directors) ==
    IF directors = NAText THEN <<>> ELSE SelectSeq(directors, LAMBDA c : c # Comma)

\* one pair per identifier of every row, in file order
TokenPairs(crew) ==
    FlatMap(crew, [r \in Range(crew) |->
                      [i \in 1..Len(TokensOf(r.directors)) |->
                          [tconst |-> r.tconst, nconst |-> TokensOf(r.directors)[i]]]])

\* C13: the pairs load_director_assignments returns are, row by row, the
\* non-empty tokens of the directors field; a missing field gives no pair and
\* no pair carries an empty directorId
C13_Expansion ==
    cr_pc = "returned" =>
        /\ cr_pairs = TokenPairs(cr_crew)
        /\ \A i \in 1..Len(cr_pairs) : cr_pairs[i].nconst # ""

\* a field with a trailing comma: its empty last piece is returned as a pair
C13_TrailingComma ==
    /\ cr_pc = "returned"
    /\ cr_crew = <<[tconst |-> "t1", directors |-> <<"d1", Comma>>]>>
    /\ cr_pairs = <<[tconst |-> "t1", nconst |-> "d1"], [tconst |-> "t1", nconst |-> ""]>>

----------------------------------------------------------------------------
(* Specification of the chunked loaders *)

MaxNameRows == 5     \* longest name.basics file

\* the i-th row of name.basics: every row has a name of its own
NamesFile(ids) ==
    [i \in 1..Len(ids) |-> [nconst |-> ids[i], primaryName |-> RowText(i)]]

NmInit ==
    /\ nm_names \in {NamesFile(ids) : ids \in SeqsUpTo({"d1", "d2", "d3"}, MaxNameRows)}
    /\ nm_ids \in SUBSET {"d1", "d2"}
    /\ nm_subset = <<>>
    /\ nm_pc = "call"

LoadNamesSubset ==
    /\ nm_pc = "call"
    /\ nm_subset' = load_names_subset(nm_names, nm_ids)
    /\ nm_pc' = "returned"
    /\ UNCHANGED <<nm_names, nm_ids, clVars, ltVars, dVars, lVars, aVars, crVars>>

NamesInit == NmInit /\ ClIdle /\ LtIdle /\ DIdle /\ LIdle /\ AIdle /\ CrIdle

\* a run loads one of the two files
LoadingInit == TitlesInit \/ NamesInit

LoadingNext == LoadIndianTitles \/ LoadNamesSubset

LoadingSpec == LoadingInit /\ [][LoadingNext]_vars

(* Properties of the chunked loaders *)

\* the rows of title.akas with region IN, in file order, the flag as an integer
IndianRows(rows) ==
    LET matching == SelectSeq(rows, LAMBDA r : r.region = "IN")
    IN  [i \in 1..Len(matching) |->
            [matching[i] EXCEPT !.isOriginalTitle = FlagToInt(@)]]

\* the rows of name.basics of the ids asked for, in file order
WantedRows(rows, ids) == SelectSeq(rows, LAMBDA r : r.nconst \in ids)

\* C14: the chunks load_indian_titles keeps, concatenated, are the rows of
\* the file with region IN in file order, and load_names_subset returns the
\* rows of the file whose nconst is asked for in file order: no row lost,
\* repeated or moved, whatever chunks the rows fall into
C14_BatchedLoading ==
    /\ lt_pc = "returned" => Concat(lt_chunks) = IndianRows(lt_akas)
    /\ nm_pc = "returned" => nm_subset = WantedRows(nm_names, nm_ids)

\* a name.basics file of three chunks, the middle one without a wanted row
C14_Witness ==
    /\ nm_pc = "returned"
    /\ Len(nm_names) > 2 * ChunkSize
    /\ nm_names[1].nconst \in nm_ids
    /\ \A i \in (ChunkSize + 1)..(2 * ChunkSize) : nm_names[i].nconst \notin nm_ids
    /\ nm_names[2 * ChunkSize + 1].nconst \in nm_ids
    /\ Len(nm_subset) >= 2

====
